---- MODULE Spec2Model ----
(***************************************************************************)
(* Model of the research page (src/app/layout.tsx, the `Home` component):  *)
(* the backoff executor retryWithBackoff, the diversity selection of the   *)
(* agent run, and the session state machine driven by the handlers         *)
(* handleResultSelect, handleRemoveResult, handleAddCustomUrl,             *)
(* handleSearch and handleAgentSearch.                                     *)
(*                                                                         *)
(* Scores are the analyzer's scores scaled by ten (0.5 is 5).              *)
(***************************************************************************)
EXTENDS Integers, Sequences, FiniteSets, TLC

VARIABLES
  rOp,          \* retryWithBackoff: outcome kind of each successive invocation of the operation
  rMaxRetries,  \* retryWithBackoff: the maxRetries argument
  rOut,         \* retryWithBackoff: how the wrapped call settled, NotSettled before
  dIn,          \* diversity selection: the scored candidates, in search order
  dOut,         \* diversity selection: the ranked list and the selection, NotSelected before
  results,          \* state.results: the candidate set, in display order
  selectedResults,  \* state.selectedResults: ids chosen for the report, in order
  reportPrompt,     \* state.reportPrompt
  query,            \* state.query
  report,           \* state.report, NoReport for null
  error,            \* state.error, "null" for null
  isAgentMode,      \* state.isAgentMode
  loading,          \* state.status.loading
  generatingReport, \* state.status.generatingReport
  agentStep,        \* state.status.agentStep
  fetchStatus,      \* state.status.fetchStatus
  agentInsights,    \* state.status.agentInsights
  runs,             \* the handleAgentSearch and handleSearch invocations started so far
  userOps           \* number of user actions on the inputs and the sets so far

retryVars == <<rOp, rMaxRetries, rOut>>
selectVars == <<dIn, dOut>>
stateVars == <<results, selectedResults, reportPrompt, query, report, error, isAgentMode>>
statusVars == <<loading, generatingReport, agentStep, fetchStatus, agentInsights>>
sessionVars == <<stateVars, statusVars, runs>>
allSessionVars == <<sessionVars, userOps>>

vars == <<rOp, rMaxRetries, rOut, dIn, dOut, results, selectedResults, reportPrompt,
          query, report, error, isAgentMode, loading, generatingReport, agentStep,
          fetchStatus, agentInsights, runs, userOps>>

(***************************************************************************)
(* Bounds of the model                                                     *)
(***************************************************************************)
MaxRetriesBound == 3
MaxCands == 4
MaxRuns == 2
MaxUserOps == 3

(***************************************************************************)
(* Program constants                                                       *)
(***************************************************************************)
DefaultMaxRetries == 3
DefaultBaseDelay == 1000
MAX_SELECTIONS == 3
ScoreFloor == 5

(***************************************************************************)
(* retryWithBackoff (layout.tsx 106-127)                                   *)
(***************************************************************************)
\* What one invocation of the operation can do: resolve, reject with an Error whose
\* message holds '429', reject with another Error, or reject with a value that is
\* not an Error although its text holds '429'.
OutcomeKinds == {"ok", "rate", "fail", "raw429"}

\* The value or the thrown error of invocation number n of kind k.
Outcome(k, n) ==
  [ok |-> k = "ok", isError |-> k \in {"rate", "fail"},
   has429 |-> k \in {"rate", "raw429"}, at |-> n]

\* `let lastError: any`: undefined before the first failure.
Undefined == [ok |-> FALSE, isError |-> FALSE, has429 |-> FALSE, at |-> 0]

NotSettled == [status |-> "pending", value |-> Undefined, calls |-> 0, waits |-> <<>>]

Range(f) == {f[i] : i \in DOMAIN f}

RECURSIVE Pow2(_)
Pow2(n) == IF n = 0 THEN 1 ELSE 2 * Pow2(n - 1)

\* Variant: any failure that mentions 429 counts, Error or not.
AnyMention429(e) == e.has429

\* error instanceof Error && error.message.includes('429')
IsRateLimit(e) == e.isError /\ e.has429

\* const delay = baseDelay * Math.pow(2, i)
Delay(baseDelay, i) == baseDelay * Pow2(i)

\* Variant: the loop gives up one attempt early.
LoopStopsEarly(i, maxRetries) == i < maxRetries - 1

\* Variant: the loop makes one attempt more.
LoopRunsOver(i, maxRetries) == i <= maxRetries

\* for (let i = 0; i < maxRetries; i++)
LoopContinues(i, maxRetries) == i < maxRetries

\* The loop from iteration i on: calls invocations made so far, waits the sleeps taken.
RECURSIVE retryLoop(_, _, _, _, _, _, _)
retryLoop(op, maxRetries, baseDelay, i, lastError, calls, waits) ==
  IF ~LoopContinues(i, maxRetries)
  THEN [status |-> "thrown", value |-> lastError, calls |-> calls, waits |-> waits]
  ELSE LET out == Outcome(op[calls + 1], calls + 1) IN
       IF out.ok
       THEN [status |-> "returned", value |-> out, calls |-> calls + 1, waits |-> waits]
       ELSE IF IsRateLimit(out)
            THEN retryLoop(op, maxRetries, baseDelay, i + 1, out, calls + 1,
                           Append(waits, Delay(baseDelay, i)))
            ELSE [status |-> "thrown", value |-> out, calls |-> calls + 1,
                  waits |-> waits]

retryWithBackoff(op, maxRetries, baseDelay) ==
  retryLoop(op, maxRetries, baseDelay, 0, Undefined, 0, <<>>)

(***************************************************************************)
(* Diversity selection of the agent run (layout.tsx 623-664)               *)
(***************************************************************************)
\* A URL is its host and the rest of it; new URL(url).hostname reads the host.
Url(h, p) == [host |-> h, path |-> p]

hostname(url) == url.host

\* Variant: a score at the floor passes.
ScoreAtFloor(score) == score # 0 /\ score >= ScoreFloor

\* result.score && result.score > 0.5
ScorePasses(score) == score # 0 /\ score > ScoreFloor

\* Array.prototype.sort with (a, b) => (b.score || 0) - (a.score || 0): descending
\* score, stable. x goes behind every element whose score is at least its own.
RECURSIVE InsertByScore(_, _)
InsertByScore(sorted, x) ==
  IF sorted = <<>> THEN <<x>>
  ELSE IF Head(sorted).score >= x.score
       THEN <<Head(sorted)>> \o InsertByScore(Tail(sorted), x)
       ELSE <<x>> \o sorted

RECURSIVE SortByScore(_)
SortByScore(list) ==
  IF list = <<>> THEN <<>>
  ELSE InsertByScore(SortByScore(SubSeq(list, 1, Len(list) - 1)), list[Len(list)])

\* if (selectedUrls.size >= CONFIG.search.maxSelectableResults) return false
CapReached(selectedUrls) == Cardinality(selectedUrls) >= MAX_SELECTIONS

\* Variant: only the same URL counts as similar.
HasSameUrl(selectedUrls, url) == url \in selectedUrls

\* Array.from(selectedUrls).some((url) => new URL(url).hostname === domain)
HasSimilar(selectedUrls, url) ==
  \E u \in selectedUrls : hostname(u) = hostname(url)

\* rankedResults.filter(...) from position i on, with the Set selectedUrls it fills.
RECURSIVE filterDiverse(_, _, _)
filterDiverse(ranked, i, selectedUrls) ==
  IF i > Len(ranked) THEN <<>>
  ELSE LET result == ranked[i] IN
       IF CapReached(selectedUrls) THEN filterDiverse(ranked, i + 1, selectedUrls)
       ELSE IF ~HasSimilar(selectedUrls, result.url) /\ ScorePasses(result.score)
            THEN <<result>> \o filterDiverse(ranked, i + 1, selectedUrls \cup {result.url})
            ELSE filterDiverse(ranked, i + 1, selectedUrls)

selectDiverse(ranked) == filterDiverse(ranked, 1, {})

(***************************************************************************)
(* Session data (the State of `Home`, layout.tsx 131-153)                  *)
(***************************************************************************)
\* Text of an input field or a prompt, by what the handlers test of it: '' , white
\* space only, text typed by the user, the query the optimizer returns, and the
\* default prompt `Analyze and summarize the key points from ${result.name}`.
Text(kind, name) == [kind |-> kind, name |-> name]
NoName == <<>>
EmptyText == Text("empty", NoName)
BlankText == Text("blank", NoName)
UserText == Text("user", NoName)
OptimizedQuery == Text("optimized", NoName)
DefaultPrompt(name) == Text("default", name)

\* Variant: white space counts as text.
TrimNothing(text) == text

\* String.prototype.trim
Trim(text) == IF text.kind = "blank" THEN EmptyText ELSE text

\* What the user can type into an input.
TypedTexts == {EmptyText, BlankText, UserText}

\* A result of the search provider: its URL, its name, and whether it comes with
\* content.
Page(h, p, c) == [url |-> Url(h, p), name |-> <<h, p>>, content |-> c]

\* Ids: `search-${timestamp}-${idx}-${result.url}` (agent run),
\* `search-${Date.now()}-${result.id || result.url}` (manual search, idx 0) and
\* `custom-${timestamp}-${state.newUrl}`. The timestamp of a run is its number.
Id(src, ts, idx, url) == [src |-> src, ts |-> ts, idx |-> idx, url |-> url]

\* A SearchResult; score is 0 and isCustomUrl FALSE where the code leaves them out.
Candidate(id, page, custom, score) ==
  [id |-> id, url |-> page.url, name |-> page.name, content |-> page.content,
   isCustomUrl |-> custom, score |-> score]

NoReport == [run |-> 0, body |-> "null"]

EmptyMap == [u \in {} |-> "fetched"]

InitialFetchStatus(total) ==
  [total |-> total, successful |-> 0, fallback |-> 0, sourceStatuses |-> EmptyMap]

SeqIncludes(list, x) == \E i \in 1..Len(list) : list[i] = x

\* Array.prototype.filter keeping the elements in S
RECURSIVE FilterIn(_, _)
FilterIn(list, S) ==
  IF list = <<>> THEN <<>>
  ELSE IF Head(list) \in S THEN <<Head(list)>> \o FilterIn(Tail(list), S)
       ELSE FilterIn(Tail(list), S)

Ids(list) == {list[i].id : i \in 1..Len(list)}

Urls(list) == {list[i].url : i \in 1..Len(list)}

\* Variant: every candidate is taken, selected or not.
AllOf(res, sel) == res

\* state.results.filter((r) => state.selectedResults.includes(r.id))
SelectedOf(res, sel) == FilterIn(res, {c \in Range(res) : SeqIncludes(sel, c.id)})

(***************************************************************************)
(* handleError (layout.tsx 179-208): state.error becomes the message       *)
(***************************************************************************)
\* Variant: the failure is swallowed.
handleErrorSilent(message) == error' = error

handleError(message) == error' = message

(***************************************************************************)
(* User actions on the candidate and selection sets                        *)
(***************************************************************************)
\* User actions that change the state are counted, and happen while the session's
\* budget of them lasts.
UserActs == userOps < MaxUserOps

Counted == userOps' = IF sessionVars' = sessionVars THEN userOps ELSE userOps + 1

\* Variant: the cap is tested one selection late.
SelectionOverFull(sel) == Len(sel) > MAX_SELECTIONS

\* if (prev.selectedResults.length >= MAX_SELECTIONS) return prev
SelectionFull(sel) == Len(sel) >= MAX_SELECTIONS

\* handleResultSelect (layout.tsx 238-270): the selection after the toggle
toggleSelection(sel, resultId) ==
  IF SeqIncludes(sel, resultId) THEN SelectSeq(sel, LAMBDA id : id # resultId)
  ELSE IF SelectionFull(sel) THEN sel
  ELSE Append(sel, resultId)

\* handleResultSelect: the report prompt after the toggle
togglePrompt(res, sel, prompt, agentMode, resultId) ==
  IF SeqIncludes(sel, resultId) THEN (IF Len(sel) <= 1 THEN EmptyText ELSE prompt)
  ELSE IF SelectionFull(sel) THEN prompt
  ELSE IF ~agentMode /\ Len(sel) + 1 = 1 /\ prompt = EmptyText
          /\ \E c \in Range(res) : c.id = resultId
       THEN DefaultPrompt((CHOOSE c \in Range(res) : c.id = resultId).name)
       ELSE prompt

handleResultSelect(resultId) ==
  /\ UserActs
  /\ selectedResults' = toggleSelection(selectedResults, resultId)
  /\ reportPrompt' = togglePrompt(results, selectedResults, reportPrompt, isAgentMode, resultId)
  /\ UNCHANGED <<results, query, report, error, isAgentMode, statusVars, runs>>
  /\ Counted

\* handleRemoveResult (layout.tsx 830-836)
handleRemoveResult(resultId) ==
  /\ UserActs
  /\ results' = SelectSeq(results, LAMBDA c : c.id # resultId)
  /\ selectedResults' = SelectSeq(selectedResults, LAMBDA id : id # resultId)
  /\ UNCHANGED <<reportPrompt, query, report, error, isAgentMode, statusVars, runs>>
  /\ Counted

\* What the custom URL input can hold when the form is submitted.
NewUrlInputs ==
  {[kind |-> "empty", url |-> Url("-", 0)], [kind |-> "blank", url |-> Url("-", 0)],
   [kind |-> "invalid", url |-> Url("-", 0)], [kind |-> "url", url |-> Url("a", 1)]}

\* handleAddCustomUrl (layout.tsx 801-828) with state.newUrl = newUrl
handleAddCustomUrl(newUrl) ==
  /\ UserActs
  /\ IF newUrl.kind \in {"empty", "blank"} THEN UNCHANGED sessionVars
     ELSE IF newUrl.kind = "invalid"
          THEN /\ handleError("Please enter a valid URL")
               /\ UNCHANGED <<results, selectedResults, reportPrompt, query, report,
                              isAgentMode, statusVars, runs>>
          ELSE IF newUrl.url \in Urls(results) THEN UNCHANGED sessionVars
               ELSE /\ results' =
                         <<[id |-> Id("custom", 0, 0, newUrl.url), url |-> newUrl.url,
                            name |-> <<"Custom URL", 0>>, content |-> FALSE,
                            isCustomUrl |-> TRUE, score |-> 0]>> \o results
                    /\ UNCHANGED <<selectedResults, reportPrompt, query, report, error,
                                   isAgentMode, statusVars, runs>>
  /\ Counted

\* The agent mode checkbox (layout.tsx 910-917)
setAgentMode(checked) ==
  /\ UserActs
  /\ checked # isAgentMode
  /\ isAgentMode' = checked
  /\ UNCHANGED <<results, selectedResults, reportPrompt, query, report, error,
                 statusVars, runs>>
  /\ Counted

\* The research input of the agent mode (layout.tsx 933-940)
setReportPrompt(text) ==
  /\ UserActs
  /\ isAgentMode
  /\ text # reportPrompt
  /\ reportPrompt' = text
  /\ query' = EmptyText
  /\ UNCHANGED <<results, selectedResults, report, error, isAgentMode, statusVars, runs>>
  /\ Counted

\* The query input of the manual form
setQuery(text) ==
  /\ UserActs
  /\ ~isAgentMode
  /\ text # query
  /\ query' = text
  /\ UNCHANGED <<results, selectedResults, reportPrompt, report, error, isAgentMode,
                 statusVars, runs>>
  /\ Counted

\* generateReport (layout.tsx 480-483)
generateReport ==
  /\ UserActs
  /\ reportPrompt # EmptyText
  /\ Len(selectedResults) # 0
  /\ query' = reportPrompt
  /\ UNCHANGED <<results, selectedResults, reportPrompt, report, error, isAgentMode,
                 statusVars, runs>>
  /\ Counted

(***************************************************************************)
(* The collaborators: what their HTTP exchange can give                    *)
(***************************************************************************)
\* Status of a response; "429msg" is a 429 whose JSON body carries an error text of
\* its own (without the digits 429); "down" is a fetch that rejects (no response).
Http == {"200", "429", "429msg", "403", "500", "down"}

\* One response per invocation of a call wrapped in retryWithBackoff.
HttpScripts == [1..DefaultMaxRetries -> Http]

\* /api/optimize-research and /api/analyze-results (layout.tsx 522-527, 615-620):
\* throw new Error(`Failed to ...: ${response.status} ${response.statusText}`)
statusKind(h) ==
  IF h = "200" THEN "ok" ELSE IF h \in {"429", "429msg"} THEN "rate" ELSE "fail"

\* Variant: a quota failure of the search counts as a rate-limit signal.
agentSearchQuotaRetried(h) ==
  IF h = "200" THEN "ok" ELSE IF h = "403" THEN "rate" ELSE "fail"

\* /api/search in the agent run (layout.tsx 558-577): 'Rate limit exceeded',
\* 'Search quota exceeded...' or 'Search failed'
agentSearchKind(h) == IF h = "200" THEN "ok" ELSE "fail"

\* /api/search, /api/report and /api/fetch-content in the manual flow and fetchContent
\* (layout.tsx 219-226, 377-384, 415-420):
\* throw new Error(errorData.error || `...: ${res.status}`)
bodyOrStatusKind(h) ==
  IF h = "200" THEN "ok" ELSE IF h = "429" THEN "rate" ELSE "fail"

\* /api/report in the agent run (layout.tsx 760-771): .then((res) => res.json()),
\* whatever the status
agentReportKind(h) == IF h = "down" THEN "fail" ELSE "ok"

\* The message of the Error a failed search of the agent run throws.
agentSearchMessage(h) ==
  IF h \in {"429", "429msg"} THEN "Rate limit exceeded"
  ELSE IF h = "403" THEN "Search quota exceeded"
  ELSE "Search failed"

\* The search provider's pages and the lists it returns (webPages.value).
PageA1 == Page("a", 1, FALSE)
PageA2 == Page("a", 2, TRUE)
PageB1 == Page("b", 1, FALSE)
PageC1 == Page("c", 1, TRUE)

SearchResponses == {<<>>, <<PageA1, PageA2, PageB1, PageC1>>}

\* The analyzer's rankings: a list of {url, score}.
RankAll(score) ==
  <<[url |-> PageA1.url, score |-> score], [url |-> PageA2.url, score |-> score],
    [url |-> PageB1.url, score |-> score], [url |-> PageC1.url, score |-> score]>>

RankMixed ==
  <<[url |-> PageA1.url, score |-> 6], [url |-> PageA2.url, score |-> 9],
    [url |-> PageB1.url, score |-> 9], [url |-> PageC1.url, score |-> 6]>>

\* A ranking that puts two pages without content of their own into the selection.
RankFirst ==
  <<[url |-> PageA1.url, score |-> 9], [url |-> PageA2.url, score |-> 6],
    [url |-> PageB1.url, score |-> 9], [url |-> PageC1.url, score |-> 6]>>

RankingOptions == {<<>>, RankAll(5), RankMixed}

\* rankings.find((r) => r.url === result.url)?.score || 0
scoreOf(rankings, url) ==
  LET hits == SelectSeq(rankings, LAMBDA r : r.url = url) IN
    IF hits = <<>> THEN 0 ELSE Head(hits).score

\* What fetchContent gives for one source: content, empty content, or a thrown Error.
FetchResponses == {"200", "200empty", "429", "429msg", "500", "down"}

\* Variant: a rate-limit failure of the fetch falls back like any other failure.
fetchRateLimitFallsBack(resp) ==
  IF resp = "200" THEN "content" ELSE IF resp = "200empty" THEN "empty" ELSE "fail"

\* Variant: every failure of the fetch counts as a rate-limit signal.
fetchFailureAborts(resp) ==
  IF resp = "200" THEN "content" ELSE IF resp = "200empty" THEN "empty" ELSE "rate"

fetchContentKind(resp) ==
  IF resp = "200" THEN "content"
  ELSE IF resp = "200empty" THEN "empty"
  ELSE bodyOrStatusKind(resp)

(***************************************************************************)
(* Runs: the invocations of handleAgentSearch and handleSearch in flight   *)
(***************************************************************************)
ZeroCalls == [optimizer |-> 0, search |-> 0, analyzer |-> 0, fetcher |-> 0, synthesizer |-> 0]

\* kind: agent, search (manual search) or report (manual report generation)
\* pc: the call the run awaits; sources: the candidates whose content it resolves;
\* pending: the places in sources whose fetchContent is in flight; contents: where the
\* content of each source came from; aborted: Promise.all rejected; calls: the calls
\* issued to each collaborator (a call wrapped in retryWithBackoff counts once);
\* outcome: how the run ended; failure: the message of the Error its catch block
\* received; failedAfter: the invocations made of the call whose
\* failure ended the run.
NewRun(kind, pc) ==
  [kind |-> kind, pc |-> pc, allResults |-> <<>>, sources |-> <<>>, pending |-> {},
   contents |-> <<>>, aborted |-> FALSE, calls |-> ZeroCalls, outcome |-> "running",
   failure |-> "none", failedAfter |-> 0]

\* await retryWithBackoff(async () => { ... }) on a script of responses; kindOf gives
\* what the call site makes of each response.
Invoke(op, kindOf) ==
  retryWithBackoff([n \in DOMAIN op |-> kindOf[op[n]]], DefaultMaxRetries, DefaultBaseDelay)

\* How a wrapped call can settle, with the last response it got, over all scripts.
Settled(kindOf) ==
  {[res |-> Invoke(op, kindOf), last |-> op[Invoke(op, kindOf).calls]] : op \in HttpScripts}

OptimizerSettled == Settled([h \in Http |-> statusKind(h)])
AnalyzerSettled == Settled([h \in Http |-> statusKind(h)])
AgentSearchSettled == Settled([h \in Http |-> agentSearchKind(h)])
AgentReportSettled == Settled([h \in Http |-> agentReportKind(h)])
ManualSearchSettled == Settled([h \in Http |-> bodyOrStatusKind(h)])
ManualReportSettled == Settled([h \in Http |-> bodyOrStatusKind(h)])

\* Runs of a handler started and not yet settled.
Active(r) == r \in 1..Len(runs) /\ runs[r].pc # "done"

\* The synchronous start of the per-source resolutions (layout.tsx 293-315, 699-719):
\* a source that has content is recorded as fetched at once, the others call
\* fetchContent.
recordFetched(fs, url) ==
  [fs EXCEPT !.successful = @ + 1,
             !.sourceStatuses = [u \in DOMAIN @ \cup {url} |-> IF u = url THEN "fetched" ELSE @[u]]]

recordFallback(fs, url) ==
  [fs EXCEPT !.fallback = @ + 1,
             !.sourceStatuses = [u \in DOMAIN @ \cup {url} |-> IF u = url THEN "preview" ELSE @[u]]]

\* Variant: a source that has content is not recorded.
recordNoOwnContent(fs, sources, i) == fs

RECURSIVE recordOwnContent(_, _, _)
recordOwnContent(fs, sources, i) ==
  IF i > Len(sources) THEN fs
  ELSE recordOwnContent(IF sources[i].content THEN recordFetched(fs, sources[i].url) ELSE fs,
                        sources, i + 1)

\* Variant: the synthesizer is called together with the fetches.
startResolutionWithSynthesis(run, sources) ==
  [run EXCEPT !.calls.fetcher = Cardinality({i \in 1..Len(sources) : ~sources[i].content}),
              !.calls.synthesizer = 1,
              !.pc = "synth",
              !.sources = sources,
              !.pending = {i \in 1..Len(sources) : ~sources[i].content},
              !.contents = [i \in 1..Len(sources) |-> IF sources[i].content THEN "own" ELSE "none"]]

startResolution(run, sources) ==
  [run EXCEPT !.calls.fetcher = Cardinality({i \in 1..Len(sources) : ~sources[i].content}),
              !.calls.synthesizer = IF \A i \in 1..Len(sources) : sources[i].content THEN 1 ELSE 0,
              !.pc = IF \A i \in 1..Len(sources) : sources[i].content THEN "synth" ELSE "resolve",
              !.sources = sources,
              !.pending = {i \in 1..Len(sources) : ~sources[i].content},
              !.contents = [i \in 1..Len(sources) |-> IF sources[i].content THEN "own" ELSE "none"]]

(***************************************************************************)
(* handleAgentSearch (layout.tsx 486-798), one action per await            *)
(***************************************************************************)
\* Variant: the new insights replace the log.
replaceInsights(log, insights) == insights

\* agentInsights: [...prev.agentInsights, ...] in a functional update of the status
appendInsights(log, insights) == log \o insights

\* The submission: validation, the reset of the status and of the session's sets,
\* and the first call of the optimizer.
handleAgentSearch ==
  IF Trim(reportPrompt) = EmptyText THEN UNCHANGED sessionVars
  ELSE /\ Len(runs) < MaxRuns
       /\ agentStep' = "processing"
       /\ agentInsights' = <<>>
       /\ error' = "null"
       /\ results' = <<>>
       /\ selectedResults' = <<>>
       /\ report' = NoReport
       /\ runs' = Append(runs, [NewRun("agent", "optimize") EXCEPT !.calls.optimizer = 1])
       /\ UNCHANGED <<reportPrompt, query, isAgentMode, loading, generatingReport, fetchStatus>>

\* catch (error) { handleError(error, 'Agent Error') }: the run ends where it is.
agentFailed(r, message, invocations) ==
  /\ handleError(message)
  /\ runs' = [runs EXCEPT ![r].pc = "done", ![r].outcome = "failed",
                          ![r].failure = message, ![r].failedAfter = invocations]

\* Step 1 settles: the optimized query and the insights, then the search is called.
agentOptimized(r) ==
  /\ Active(r) /\ runs[r].kind = "agent" /\ runs[r].pc = "optimize"
  /\ \E s \in OptimizerSettled, suggestedStructure \in BOOLEAN :
       LET res == s.res IN
         IF res.status = "returned"
         THEN /\ query' = OptimizedQuery
              /\ agentInsights' =
                   appendInsights(agentInsights,
                     <<"Research strategy">>
                       \o (IF suggestedStructure THEN <<"Suggested structure">> ELSE <<>>))
              /\ agentStep' = "searching"
              /\ runs' = [runs EXCEPT ![r].pc = "search", ![r].calls.search = 1]
              /\ UNCHANGED <<results, selectedResults, reportPrompt, report, error,
                             isAgentMode, loading, generatingReport, fetchStatus>>
         ELSE /\ agentFailed(r, "Failed to optimize research", res.calls)
              /\ UNCHANGED <<results, selectedResults, reportPrompt, query, report,
                             isAgentMode, statusVars>>

\* const allResults = searchResults.map(...) with the ids of the run
agentResults(r, response) ==
  [i \in 1..Len(response) |->
     Candidate(Id("search", r, i, response[i].url), response[i], FALSE, 0)]

\* Step 2 settles: no result is a failure, else the analyzer is called.
agentSearched(r) ==
  /\ Active(r) /\ runs[r].kind = "agent" /\ runs[r].pc = "search"
  /\ \E s \in AgentSearchSettled, response \in SearchResponses :
       LET res == s.res IN
         IF res.status = "thrown"
         THEN /\ agentFailed(r, agentSearchMessage(s.last), res.calls)
              /\ UNCHANGED <<results, selectedResults, reportPrompt, query, report,
                             isAgentMode, statusVars>>
         ELSE IF Len(response) = 0
         THEN /\ agentFailed(r, "No search results found", 0)
              /\ UNCHANGED <<results, selectedResults, reportPrompt, query, report,
                             isAgentMode, statusVars>>
         ELSE /\ agentStep' = "analyzing"
              /\ runs' = [runs EXCEPT ![r].pc = "analyze",
                                      ![r].allResults = agentResults(r, response),
                                      ![r].calls.analyzer = 1]
              /\ UNCHANGED <<stateVars, loading, generatingReport, fetchStatus, agentInsights>>

\* const rankedResults = allResults.map(...).sort(...)
rankResults(allResults, rankings) ==
  SortByScore([i \in 1..Len(allResults) |->
                 [allResults[i] EXCEPT !.score = scoreOf(rankings, allResults[i].url)]])

\* Step 3 settles: ranking, the diversity selection, the update of the session's sets
\* and the start of step 4 up to its first await.
agentAnalysisSettled(r, s, rankings) ==
  /\ Active(r) /\ runs[r].kind = "agent" /\ runs[r].pc = "analyze"
  /\ LET res == s.res
         rankedResults == rankResults(runs[r].allResults, rankings)
         selected == selectDiverse(rankedResults) IN
       IF res.status = "thrown"
       THEN /\ agentFailed(r, "Failed to analyze results", res.calls)
            /\ UNCHANGED <<results, selectedResults, reportPrompt, query, report,
                           isAgentMode, statusVars>>
       ELSE IF \A i \in 1..Len(rankedResults) : rankedResults[i].score = 0
       THEN /\ agentFailed(r, "No relevant results found", 0)
            /\ UNCHANGED <<results, selectedResults, reportPrompt, query, report,
                           isAgentMode, statusVars>>
       ELSE IF Len(selected) = 0
       THEN /\ agentFailed(r, "Could not find enough diverse, high-quality sources", 0)
            /\ agentInsights' = appendInsights(agentInsights, <<"Analysis", "Found relevant results">>)
            /\ UNCHANGED <<results, selectedResults, reportPrompt, query, report,
                           isAgentMode, loading, generatingReport, agentStep, fetchStatus>>
       ELSE /\ results' = rankedResults
            /\ selectedResults' = [i \in 1..Len(selected) |-> selected[i].id]
            /\ agentInsights' = appendInsights(agentInsights,
                 <<"Analysis", "Found relevant results", "Selected diverse sources">>)
            /\ agentStep' = "generating"
            /\ fetchStatus' = recordOwnContent(InitialFetchStatus(Len(selected)), selected, 1)
            /\ runs' = [runs EXCEPT ![r] =
                          startResolution(runs[r], selected)]
            /\ UNCHANGED <<reportPrompt, query, report, error, isAgentMode, loading,
                           generatingReport>>

agentAnalyzed(r) ==
  \E s \in AnalyzerSettled, rankings \in RankingOptions : agentAnalysisSettled(r, s, rankings)

\* Step 4 settles for the agent run: whatever JSON the report endpoint answers is
\* stored as the report.
agentReportSettled(r, s) ==
  /\ Active(r) /\ runs[r].kind = "agent" /\ runs[r].pc = "synth"
  /\ LET res == s.res IN
       IF res.status = "thrown"
       THEN /\ agentFailed(r, "Failed to fetch", res.calls)
            /\ UNCHANGED <<results, selectedResults, reportPrompt, query, report,
                           isAgentMode, statusVars>>
       ELSE /\ report' = [run |-> r, body |-> IF s.last = "200" THEN "report" ELSE "error"]
            /\ agentInsights' = appendInsights(agentInsights, <<"Report generated successfully">>)
            /\ agentStep' = "idle"
            /\ runs' = [runs EXCEPT ![r].pc = "done", ![r].outcome = "reported"]
            /\ UNCHANGED <<results, selectedResults, reportPrompt, query, error,
                           isAgentMode, loading, generatingReport, fetchStatus>>

agentReported(r) == \E s \in AgentReportSettled : agentReportSettled(r, s)

\* Variant: the busy flag is left as it is.
flagLeftBusy(flag) == flag

\* finally { updateStatus({ loading: false }) } and
\* finally { updateStatus({ generatingReport: false }) } of handleSearch
flagCleared(flag) == FALSE

(***************************************************************************)
(* Content resolution of one source (layout.tsx 317-357, 721-756)          *)
(***************************************************************************)
\* The fetchContent of source i of run r settles with the response resp of its one
\* fetch. A rate-limit Error rejects the Promise.all of the run (once); the other
\* sources keep settling after that.
sourceSettled(r, i, resp) ==
  /\ r \in 1..Len(runs) /\ i \in runs[r].pending
  /\ LET kind == fetchContentKind(resp)
         run == runs[r]
         url == run.sources[i].url
         left == run.pending \ {i} IN
     IF kind = "rate"
     THEN /\ IF run.aborted
             THEN /\ runs' = [runs EXCEPT ![r].pending = left]
                  /\ UNCHANGED <<error, generatingReport>>
             ELSE /\ handleError("429")
                  /\ generatingReport' = IF run.kind = "report" THEN flagCleared(generatingReport)
                                         ELSE generatingReport
                  /\ runs' = [runs EXCEPT ![r].pending = left, ![r].aborted = TRUE,
                                          ![r].pc = "done", ![r].outcome = "failed",
                                          ![r].failure = "429", ![r].failedAfter = 1]
          /\ UNCHANGED <<results, selectedResults, reportPrompt, query, report,
                         isAgentMode, loading, agentStep, fetchStatus, agentInsights>>
     ELSE /\ fetchStatus' = IF kind = "content" THEN recordFetched(fetchStatus, url)
                            ELSE recordFallback(fetchStatus, url)
          /\ runs' = [runs EXCEPT
               ![r].pending = left,
               ![r].contents[i] = IF kind = "content" THEN "fetched" ELSE "snippet",
               ![r].pc = IF left = {} /\ ~run.aborted THEN "synth" ELSE @,
               ![r].calls.synthesizer = IF left = {} /\ ~run.aborted THEN 1 ELSE @]
          /\ UNCHANGED <<stateVars, loading, generatingReport, agentStep, agentInsights>>

sourceResolved(r, i) == \E resp \in FetchResponses : sourceSettled(r, i, resp)

(***************************************************************************)
(* handleSearch (layout.tsx 273-463)                                       *)
(***************************************************************************)
\* The submission of the manual form: with a selection (and agent mode off) the
\* report is generated from it, else the search is run.
handleSearch ==
  IF Trim(query) = EmptyText THEN UNCHANGED sessionVars
  ELSE /\ Len(runs) < MaxRuns
       /\ IF Len(selectedResults) > 0 /\ ~isAgentMode
          THEN LET sources == SelectedOf(results, selectedResults) IN
               /\ generatingReport' = TRUE
               /\ error' = "null"
               /\ fetchStatus' =
                    recordOwnContent(InitialFetchStatus(Len(selectedResults)), sources, 1)
               /\ runs' = Append(runs, startResolution(NewRun("report", "resolve"), sources))
               /\ UNCHANGED <<results, selectedResults, reportPrompt, query, report,
                              isAgentMode, loading, agentStep, agentInsights>>
          ELSE /\ loading' = TRUE
               /\ error' = "null"
               /\ reportPrompt' = EmptyText
               /\ runs' = Append(runs, [NewRun("search", "search") EXCEPT !.calls.search = 1])
               /\ UNCHANGED <<results, selectedResults, query, report, isAgentMode,
                              generatingReport, agentStep, fetchStatus, agentInsights>>

\* const newResults = (response.webPages?.value || []).map(...)
manualResults(r, response) ==
  [i \in 1..Len(response) |->
     Candidate(Id("search", r, 0, response[i].url), response[i], FALSE, 0)]

\* Variant: the merge appends every new result.
mergeAppends(prevResults, prevSelected, newResults) ==
  FilterIn(prevResults, {c \in Range(prevResults) :
                           c.isCustomUrl \/ SeqIncludes(prevSelected, c.id)})
  \o newResults

\* The setState of the manual search: selected and custom candidates are kept, new
\* results whose URL is already known are dropped.
mergeResults(prevResults, prevSelected, newResults) ==
  FilterIn(prevResults, {c \in Range(prevResults) :
                           c.isCustomUrl \/ SeqIncludes(prevSelected, c.id)})
  \o FilterIn(newResults, {n \in Range(newResults) : n.url \notin Urls(prevResults)})

\* The search of the manual flow settles as s with the response of the provider.
manualSettled(r, s, response) ==
  /\ Active(r) /\ runs[r].kind = "search" /\ runs[r].pc = "search"
  /\ LET res == s.res IN
       /\ loading' = flagCleared(loading)
       /\ IF res.status = "returned"
          THEN /\ results' = mergeResults(results, selectedResults, manualResults(r, response))
               /\ error' = "null"
               /\ runs' = [runs EXCEPT ![r].pc = "done", ![r].outcome = "searched"]
          ELSE /\ handleError("Search failed")
               /\ runs' = [runs EXCEPT ![r].pc = "done", ![r].outcome = "failed",
                                       ![r].failure = "Search failed",
                                       ![r].failedAfter = res.calls]
               /\ UNCHANGED results
       /\ UNCHANGED <<selectedResults, reportPrompt, query, report, isAgentMode,
                      generatingReport, agentStep, fetchStatus, agentInsights>>

manualSearched(r) ==
  \E s \in ManualSearchSettled, response \in SearchResponses : manualSettled(r, s, response)

\* The report call of the manual flow settles.
manualReported(r) ==
  /\ Active(r) /\ runs[r].kind = "report" /\ runs[r].pc = "synth"
  /\ \E s \in ManualReportSettled :
       LET res == s.res IN
         /\ generatingReport' = flagCleared(generatingReport)
         /\ IF res.status = "returned"
            THEN /\ report' = [run |-> r, body |-> "report"]
                 /\ runs' = [runs EXCEPT ![r].pc = "done", ![r].outcome = "reported"]
                 /\ UNCHANGED error
            ELSE /\ handleError("Failed to generate report")
                 /\ runs' = [runs EXCEPT ![r].pc = "done", ![r].outcome = "failed",
                                         ![r].failure = "Failed to generate report",
                                         ![r].failedAfter = res.calls]
                 /\ UNCHANGED report
         /\ UNCHANGED <<results, selectedResults, reportPrompt, query, isAgentMode,
                        loading, agentStep, fetchStatus, agentInsights>>

(***************************************************************************)
(* Specifications                                                          *)
(***************************************************************************)
\* Scripts of the operation: one outcome kind per invocation, one more than the loop
\* can use.
OpScripts == [1..(MaxRetriesBound + 1) -> OutcomeKinds]

\* Inputs of the selection: candidates of four hosts, one host with two pages; scores
\* at the floor (0.5) and two above it.
SelUrls == {Url("a", 1), Url("a", 2), Url("b", 1), Url("c", 1), Url("d", 1)}
SelScores == {5, 6, 9}

\* Number the candidates by their place in the search response.
Indexed(list) == [i \in 1..Len(list) |-> [idx |-> i, url |-> list[i].url, score |-> list[i].score]]

CandLists ==
  UNION {[1..n -> [url : SelUrls, score : SelScores]] : n \in 0..MaxCands}

\* Scores [0.9, 0.8, 0.6, 0.4, 0.9] on hosts [a, a, b, c, d].
ScenarioB ==
  <<[url |-> Url("a", 1), score |-> 9], [url |-> Url("a", 2), score |-> 8],
    [url |-> Url("b", 1), score |-> 6], [url |-> Url("c", 1), score |-> 4],
    [url |-> Url("d", 1), score |-> 9]>>

NotSelected == [status |-> "pending", ranked |-> <<>>, selected |-> <<>>]

RetryIdle ==
  /\ rOp = [n \in 1..(MaxRetriesBound + 1) |-> "ok"]
  /\ rMaxRetries = DefaultMaxRetries
  /\ rOut = NotSettled

SelectIdle ==
  /\ dIn = <<>>
  /\ dOut = NotSelected

\* The state of `Home` after construction (layout.tsx 131-153); no handler runs.
SessionInit ==
  /\ results = <<>>
  /\ selectedResults = <<>>
  /\ reportPrompt = EmptyText
  /\ query = EmptyText
  /\ report = NoReport
  /\ error = "null"
  /\ isAgentMode = FALSE
  /\ loading = FALSE
  /\ generatingReport = FALSE
  /\ agentStep = "idle"
  /\ fetchStatus = InitialFetchStatus(0)
  /\ agentInsights = <<>>
  /\ runs = <<>>
  /\ userOps = 0

\* retryWithBackoff on every script of the operation
RetryInit ==
  /\ rOp \in OpScripts
  /\ rMaxRetries \in 1..MaxRetriesBound
  /\ rOut = NotSettled
  /\ SelectIdle
  /\ SessionInit

\* The wrapped call runs to its end.
RetryRun ==
  /\ rOut.status = "pending"
  /\ rOut' = retryWithBackoff(rOp, rMaxRetries, DefaultBaseDelay)
  /\ UNCHANGED <<rOp, rMaxRetries, selectVars, allSessionVars>>

RetryNext == RetryRun

SpecRetry == RetryInit /\ [][RetryNext]_vars

\* The diversity selection on every list of scored candidates
SelectInit ==
  /\ dIn \in {Indexed(l) : l \in CandLists \cup {ScenarioB}}
  /\ dOut = NotSelected
  /\ RetryIdle
  /\ SessionInit

\* Rank the candidates and filter them.
SelectRun ==
  /\ dOut.status = "pending"
  /\ LET ranked == SortByScore(dIn) IN
       dOut' = [status |-> "done", ranked |-> ranked, selected |-> selectDiverse(ranked)]
  /\ UNCHANGED <<dIn, retryVars, allSessionVars>>

SelectNext == SelectRun

SpecSelect == SelectInit /\ [][SelectNext]_vars

\* The session: user actions and the steps of the runs, in any order
Init ==
  /\ SessionInit
  /\ RetryIdle
  /\ SelectIdle

Next ==
  \/ (\E id \in Ids(results) : handleResultSelect(id)) /\ UNCHANGED <<retryVars, selectVars>>
  \/ (\E id \in Ids(results) : handleRemoveResult(id)) /\ UNCHANGED <<retryVars, selectVars>>
  \/ (\E u \in NewUrlInputs : handleAddCustomUrl(u)) /\ UNCHANGED <<retryVars, selectVars>>
  \/ (\E b \in BOOLEAN : setAgentMode(b)) /\ UNCHANGED <<retryVars, selectVars>>
  \/ (\E t \in TypedTexts : setReportPrompt(t)) /\ UNCHANGED <<retryVars, selectVars>>
  \/ (\E t \in TypedTexts : setQuery(t)) /\ UNCHANGED <<retryVars, selectVars>>
  \/ generateReport /\ UNCHANGED <<retryVars, selectVars>>
  \/ handleAgentSearch /\ UNCHANGED <<retryVars, selectVars, userOps>>
  \/ handleSearch /\ UNCHANGED <<retryVars, selectVars, userOps>>
  \/ (\E r \in 1..Len(runs) : agentOptimized(r)) /\ UNCHANGED <<retryVars, selectVars, userOps>>
  \/ (\E r \in 1..Len(runs) : agentSearched(r)) /\ UNCHANGED <<retryVars, selectVars, userOps>>
  \/ (\E r \in 1..Len(runs) : agentAnalyzed(r)) /\ UNCHANGED <<retryVars, selectVars, userOps>>
  \/ (\E r \in 1..Len(runs) : agentReported(r)) /\ UNCHANGED <<retryVars, selectVars, userOps>>
  \/ (\E r \in 1..Len(runs) : \E i \in runs[r].pending : sourceResolved(r, i))
       /\ UNCHANGED <<retryVars, selectVars, userOps>>
  \/ (\E r \in 1..Len(runs) : manualSearched(r)) /\ UNCHANGED <<retryVars, selectVars, userOps>>
  \/ (\E r \in 1..Len(runs) : manualReported(r)) /\ UNCHANGED <<retryVars, selectVars, userOps>>

Spec == Init /\ [][Next]_vars


\* The agent pipeline alone: agent mode is on and a research prompt is typed; the
\* form is submitted and the runs proceed, with every ranking of the analyzer,
\* among them one that leaves two sources to fetch.
PipelineInit ==
  /\ results = <<>>
  /\ selectedResults = <<>>
  /\ reportPrompt = UserText
  /\ query = EmptyText
  /\ report = NoReport
  /\ error = "null"
  /\ isAgentMode = TRUE
  /\ loading = FALSE
  /\ generatingReport = FALSE
  /\ agentStep = "idle"
  /\ fetchStatus = InitialFetchStatus(0)
  /\ agentInsights = <<>>
  /\ runs = <<>>
  /\ userOps = 2
  /\ RetryIdle
  /\ SelectIdle

PipelineRankings == RankingOptions \cup {RankFirst}

agentAnalyzedOf(r) ==
  \E s \in AnalyzerSettled, rankings \in PipelineRankings : agentAnalysisSettled(r, s, rankings)

PipelineNext ==
  \/ handleAgentSearch /\ UNCHANGED <<retryVars, selectVars, userOps>>
  \/ (\E r \in 1..Len(runs) : agentOptimized(r)) /\ UNCHANGED <<retryVars, selectVars, userOps>>
  \/ (\E r \in 1..Len(runs) : agentSearched(r)) /\ UNCHANGED <<retryVars, selectVars, userOps>>
  \/ (\E r \in 1..Len(runs) : agentAnalyzedOf(r)) /\ UNCHANGED <<retryVars, selectVars, userOps>>
  \/ (\E r \in 1..Len(runs) : agentReported(r)) /\ UNCHANGED <<retryVars, selectVars, userOps>>
  \/ (\E r \in 1..Len(runs) : \E i \in runs[r].pending : sourceResolved(r, i))
       /\ UNCHANGED <<retryVars, selectVars, userOps>>

SpecPipeline == PipelineInit /\ [][PipelineNext]_vars

\* The manual flow alone, with every call in flight settling at last: the user's
\* actions outside agent mode, the submissions of the manual form, and the
\* responses of the search, of the content fetches and of the report call.
searchSettles(r) == manualSearched(r) /\ UNCHANGED <<retryVars, selectVars, userOps>>

reportSettles(r) == manualReported(r) /\ UNCHANGED <<retryVars, selectVars, userOps>>

fetchSettles(r) ==
  (\E i \in runs[r].pending : sourceResolved(r, i)) /\ UNCHANGED <<retryVars, selectVars, userOps>>

ManualNext ==
  \/ (\E id \in Ids(results) : handleResultSelect(id)) /\ UNCHANGED <<retryVars, selectVars>>
  \/ (\E id \in Ids(results) : handleRemoveResult(id)) /\ UNCHANGED <<retryVars, selectVars>>
  \/ (\E u \in NewUrlInputs : handleAddCustomUrl(u)) /\ UNCHANGED <<retryVars, selectVars>>
  \/ (\E t \in TypedTexts : setQuery(t)) /\ UNCHANGED <<retryVars, selectVars>>
  \/ generateReport /\ UNCHANGED <<retryVars, selectVars>>
  \/ handleSearch /\ UNCHANGED <<retryVars, selectVars, userOps>>
  \/ \E r \in 1..Len(runs) : searchSettles(r)
  \/ \E r \in 1..Len(runs) : reportSettles(r)
  \/ \E r \in 1..Len(runs) : fetchSettles(r)

\* Every collaborator call eventually returns or fails.
CallsSettle ==
  \A r \in 1..MaxRuns :
    /\ WF_vars(r \in 1..Len(runs) /\ searchSettles(r))
    /\ WF_vars(r \in 1..Len(runs) /\ reportSettles(r))
    /\ WF_vars(r \in 1..Len(runs) /\ fetchSettles(r))

SpecManual == Init /\ [][ManualNext]_vars /\ CallsSettle
(***************************************************************************)
(* Claims about retryWithBackoff                                           *)
(***************************************************************************)
\* C1: for every k < maxRetries, k rate-limit failures in a row followed by a success
\* make the wrapped call return that success value after exactly k+1 invocations.
C1_SuccessAfterRateLimits ==
  rOut.status # "pending" =>
    \A k \in 0..(rMaxRetries - 1) :
      ((\A n \in 1..(k) : rOp[n] = "rate") /\ rOp[k + 1] = "ok") =>
        /\ rOut.status = "returned"
        /\ rOut.value = Outcome("ok", k + 1)
        /\ rOut.calls = k + 1

\* Two rate-limit failures, then success, maxRetries = 3: returned after 3 invocations.
C1_Witness ==
  /\ rMaxRetries = 3
  /\ rOp[1] = "rate" /\ rOp[2] = "rate" /\ rOp[3] = "ok"
  /\ rOut.status = "returned"
  /\ rOut.calls = 3

\* C2: a failure that is not a rate-limit signal is propagated at once: it is the
\* error thrown, the operation is not invoked again, and no wait follows it (the only
\* waits are those after the rate-limit failures before it).
C2_OtherFailurePropagates ==
  rOut.status # "pending" =>
    \A k \in 1..rMaxRetries :
      ((\A n \in 1..(k - 1) : rOp[n] = "rate") /\ rOp[k] \in {"fail", "raw429"}) =>
        /\ rOut.status = "thrown"
        /\ rOut.value = Outcome(rOp[k], k)
        /\ rOut.calls = k
        /\ Len(rOut.waits) = k - 1

\* A plain failure on the second invocation with attempts remaining.
C2_Witness ==
  /\ rMaxRetries = 3
  /\ rOp[1] = "rate" /\ rOp[2] = "fail"
  /\ rOut.status = "thrown"
  /\ rOut.calls = 2

\* C3: when every invocation fails with a rate-limit signal the operation is invoked
\* exactly maxRetries times and the failure of the last invocation is propagated.
C3_ExhaustedRetries ==
  rOut.status # "pending" =>
    ((\A n \in 1..(rMaxRetries) : rOp[n] = "rate") =>
       /\ rOut.status = "thrown"
       /\ rOut.calls = rMaxRetries
       /\ rOut.value = Outcome("rate", rMaxRetries))

C3_Witness ==
  /\ rMaxRetries = 3
  /\ (\A n \in 1..(3) : rOp[n] = "rate")
  /\ rOut.status = "thrown"
  /\ rOut.calls = 3


\* C33: the rate-limit failure of attempt i (from 0) with i < maxRetries - 1 is
\* followed by a wait of baseDelay * 2^i, the i+1st wait of the call, and the
\* rate-limit failure of the last attempt is followed by no wait: a call that
\* used up its attempts has waited maxRetries - 1 times.
C33_NoWaitAfterLastAttempt ==
  rOut.status # "pending" =>
    /\ \A i \in 0..(rMaxRetries - 2) :
         (i + 1 <= rOut.calls /\ rOp[i + 1] = "rate") =>
           /\ Len(rOut.waits) >= i + 1
           /\ rOut.waits[i + 1] = DefaultBaseDelay * Pow2(i)
    /\ (rOut.calls = rMaxRetries /\ rOp[rMaxRetries] = "rate")
         => Len(rOut.waits) = rMaxRetries - 1
(***************************************************************************)
(* Claims about the diversity selection                                    *)
(***************************************************************************)
\* C5: no two selected candidates have the same host, every selected candidate
\* scores above 0.5, and at most MAX_SELECTIONS candidates are selected.
C5_SelectionSafe ==
  dOut.status = "done" =>
    LET sel == dOut.selected IN
      /\ \A i, j \in 1..Len(sel) : i # j => hostname(sel[i].url) # hostname(sel[j].url)
      /\ \A i \in 1..Len(sel) : sel[i].score > 5
      /\ Len(sel) <= 3

\* Four candidates above the floor on four hosts: the cap cuts the last one.
C5_Witness ==
  /\ dOut.status = "done"
  /\ Len(dIn) = 4
  /\ \A i \in 1..Len(dIn) : dIn[i].score > 5
  /\ Cardinality({hostname(dIn[i].url) : i \in 1..Len(dIn)}) = 4
  /\ Len(dOut.selected) = 3

\* C6: the selection is the greedy reference pass over the rank order; in scenario B
\* it is exactly the first 0.9 (a), the 0.6 (b) and the 0.9 (d).
C6_GreedySelection ==
  dOut.status = "done" =>
    LET ranked == dOut.ranked
        chosen == {i \in 1..Len(ranked) : ranked[i] \in Range(dOut.selected)} IN
      \* the rank order: descending score, ties in search order
      /\ Len(ranked) = Len(dIn)
      /\ Range(ranked) = Range(dIn)
      /\ \A p, q \in 1..Len(ranked) :
           p < q => \/ ranked[p].score > ranked[q].score
                    \/ ranked[p].score = ranked[q].score /\ ranked[p].idx < ranked[q].idx
      \* the greedy pass: a position is selected exactly when fewer than 3 are
      \* selected before it, its score is above 0.5 and no position selected before
      \* it has its host
      /\ \A i \in 1..Len(ranked) :
           i \in chosen <=>
             /\ Cardinality({j \in chosen : j < i}) < 3
             /\ ranked[i].score > 5
             /\ \A j \in chosen : j < i => ranked[j].url.host # ranked[i].url.host
      /\ Len(dOut.selected) = Cardinality(chosen)
      /\ \A i \in 1..Len(dOut.selected) : dOut.selected[i] \in Range(ranked)
      /\ (dIn = Indexed(ScenarioB) => {c.idx : c \in Range(dOut.selected)} = {1, 3, 5})

C6_Witness ==
  /\ dIn = Indexed(ScenarioB)
  /\ dOut.status = "done"
  /\ Len(dOut.selected) = 3


(***************************************************************************)
(* Claims about the session                                                *)
(***************************************************************************)
\* C4: in every reachable state at most 3 candidate ids are selected, whatever
\* toggles, removals, manual searches and agent runs came before.
C4_SelectionCap == Len(selectedResults) <= 3

\* Three ids are selected, a fourth candidate is listed, the user can still act, and
\* toggling the fourth leaves the selection as it is.
C4_Witness ==
  /\ Len(selectedResults) = 3
  /\ userOps < MaxUserOps
  /\ \E c \in Range(results) :
       /\ ~SeqIncludes(selectedResults, c.id)
       /\ toggleSelection(selectedResults, c.id) = selectedResults

\* C7: in the step in which the search of an agent run answers with zero results the
\* stage becomes error with the no-results message, the run has called neither the
\* analyzer nor the fetcher nor the synthesizer, and it leaves no report.
C7_ZeroResultsToError ==
  [][\A r \in 1..Len(runs) :
       (runs[r].kind = "agent" /\ runs[r].pc = "search"
          /\ runs'[r].failure = "No search results found")
       => /\ agentStep' = "error"
          /\ error' = "No search results found"
          /\ runs'[r].calls.analyzer = 0
          /\ runs'[r].calls.fetcher = 0
          /\ runs'[r].calls.synthesizer = 0
          /\ report' = report /\ report'.run # r]_vars

\* C8: in the step in which the selection of an agent run comes out empty the run
\* ends as failed and the failure is reported, the candidates and the selection
\* stay as they were, no fetch and no synthesis call is issued, and the report is
\* left alone; such a run never issues a fetch or a synthesis call afterwards and
\* never owns the report.
C8_EmptySelectionAborts ==
  /\ [](\A r \in 1..Len(runs) :
          runs[r].failure = "Could not find enough diverse, high-quality sources"
          => /\ runs[r].outcome = "failed"
             /\ runs[r].pc = "done"
             /\ runs[r].pending = {}
             /\ runs[r].calls.fetcher = 0
             /\ runs[r].calls.synthesizer = 0
             /\ report.run # r)
  /\ [][\A r \in 1..Len(runs) :
          (runs[r].pc = "analyze"
             /\ runs'[r].failure = "Could not find enough diverse, high-quality sources")
          => /\ error' = "Could not find enough diverse, high-quality sources"
             /\ results' = results
             /\ selectedResults' = selectedResults
             /\ report' = report]_vars

\* An agent run was aborted for its empty selection: every score is at the floor.
C8_Witness ==
  \E r \in 1..Len(runs) :
    /\ runs[r].kind = "agent"
    /\ runs[r].failure = "Could not find enough diverse, high-quality sources"
    /\ runs[r].calls.analyzer = 1

\* C9: in the step in which the optimizer, the search, the analyzer or the report
\* synthesis of an agent run fails, the run ends and the stage becomes error.
C9_StageFailureToError ==
  [][\A r \in 1..Len(runs) :
       (runs[r].kind = "agent"
          /\ runs[r].pc \in {"optimize", "search", "analyze", "synth"}
          /\ runs'[r].outcome = "failed")
       => /\ runs'[r].pc = "done"
          /\ agentStep' = "error"]_vars

\* C10: the stage only changes along idle, processing, searching, analyzing,
\* generating, idle, one stage at a time, or to error from a stage other than idle.
C10_StageForwardOnly ==
  [][agentStep' # agentStep =>
       \/ <<agentStep, agentStep'>> \in
            {<<"idle", "processing">>, <<"processing", "searching">>,
             <<"searching", "analyzing">>, <<"analyzing", "generating">>,
             <<"generating", "idle">>}
       \/ agentStep # "idle" /\ agentStep' = "error"]_vars

\* C11: a source whose content is already populated is never fetched (it is never
\* among the fetches in flight and the run calls the fetcher only for the other
\* sources), its content is passed on as it is, and in the step in which the
\* resolution starts it is recorded as fetched, successful counting one for each
\* such source.
C11_OwnContentUsed ==
  /\ [](\A r \in 1..Len(runs) :
          /\ runs[r].calls.fetcher =
               Cardinality({i \in 1..Len(runs[r].sources) : ~runs[r].sources[i].content})
          /\ \A i \in 1..Len(runs[r].sources) :
               runs[r].sources[i].content =>
                 /\ i \notin runs[r].pending
                 /\ runs[r].contents[i] = "own")
  /\ [][\A r \in 1..Len(runs') :
          ((r > Len(runs) \/ runs[r].sources = <<>>) /\ runs'[r].sources # <<>>)
          => LET sources == runs'[r].sources
                 own == {i \in 1..Len(sources) : sources[i].content} IN
               /\ fetchStatus'.total = Len(sources)
               /\ fetchStatus'.successful = Cardinality(own)
               /\ fetchStatus'.fallback = 0
               /\ \A i \in own :
                    /\ sources[i].url \in DOMAIN fetchStatus'.sourceStatuses
                    /\ fetchStatus'.sourceStatuses[sources[i].url] = "fetched"]_vars

\* A manual report run and an agent run have each resolved a source with content of
\* its own without a fetch.
C11_Witness ==
  /\ \E r \in 1..Len(runs) :
       /\ runs[r].kind = "report"
       /\ \E i \in 1..Len(runs[r].sources) : runs[r].contents[i] = "own"
       /\ runs[r].calls.fetcher = 0
       /\ runs[r].pc \in {"synth", "done"}
  /\ \E r \in 1..Len(runs) :
       /\ runs[r].kind = "agent"
       /\ \E i \in 1..Len(runs[r].sources) : runs[r].contents[i] = "own"
       /\ runs[r].calls.fetcher = 1

\* C12: in the step in which the fetch of a source answers with empty content or
\* fails without a rate-limit signal, the source is recorded as fallback (status
\* preview, fallback + 1), its snippet becomes its content and the run is not
\* aborted; when every source of a run that was not aborted has settled, the
\* synthesizer has been called; and a run of three sources of which exactly one
\* fell back, no other run resolving content, ends the resolution with total 3,
\* successful 2, fallback 1.
C12_FallbackOnFetchFailure ==
  /\ [][\A r \in 1..Len(runs) : \A i \in runs[r].pending :
          \A resp \in {"200empty", "500", "down"} :
            sourceSettled(r, i, resp) =>
              LET url == runs[r].sources[i].url IN
                /\ fetchStatus'.fallback = fetchStatus.fallback + 1
                /\ fetchStatus'.successful = fetchStatus.successful
                /\ fetchStatus'.sourceStatuses[url] = "preview"
                /\ runs'[r].contents[i] = "snippet"
                /\ runs'[r].aborted = runs[r].aborted
                /\ runs'[r].outcome = runs[r].outcome
                /\ error' = error]_vars
  /\ [](\A r \in 1..Len(runs) :
          (runs[r].sources # <<>> /\ runs[r].pending = {} /\ ~runs[r].aborted)
          => runs[r].calls.synthesizer = 1)
  /\ [](\A r \in 1..Len(runs) :
          (/\ Len(runs[r].sources) = 3
           /\ runs[r].pending = {}
           /\ ~runs[r].aborted
           /\ Cardinality({i \in 1..3 : runs[r].contents[i] = "snippet"}) = 1
           /\ \A q \in 1..Len(runs) : q # r => runs[q].sources = <<>>)
          => /\ fetchStatus.total = 3
             /\ fetchStatus.successful = 2
             /\ fetchStatus.fallback = 1)

\* An agent run of three sources, one of which fell back to its snippet, has called
\* the synthesizer.
C12_Witness ==
  \E r \in 1..Len(runs) :
    /\ Len(runs[r].sources) = 3
    /\ Cardinality({i \in 1..3 : runs[r].contents[i] = "snippet"}) = 1
    /\ runs[r].calls.synthesizer = 1
    /\ fetchStatus.total = 3 /\ fetchStatus.successful = 2 /\ fetchStatus.fallback = 1

\* C13: in the step in which the content resolution of a run completes without a
\* rate-limit abort (its last source settles, or every source has content of its
\* own), the fetch status has successful + fallback = total, and total is the number
\* of sources of the run.
C13_BatchCompleteCounts ==
  [][\A r \in 1..Len(runs') :
       ((r > Len(runs) \/ runs[r].pc # "synth") /\ runs'[r].pc = "synth")
       => /\ fetchStatus'.total = Len(runs'[r].sources)
          /\ fetchStatus'.successful + fetchStatus'.fallback = fetchStatus'.total]_vars

\* C14: in every reachable state successful + fallback is at most total, and each
\* step in which a source completes its resolution adds exactly one to successful +
\* fallback, whatever the interleaving of the sources and of the runs.
C14_CountsWithinTotal ==
  /\ [](fetchStatus.successful + fetchStatus.fallback <= fetchStatus.total)
  /\ [][\A r \in 1..Len(runs) : \A i \in runs[r].pending :
          (i \notin runs'[r].pending /\ runs'[r].contents[i] # "none")
          => fetchStatus'.successful + fetchStatus'.fallback
               = fetchStatus.successful + fetchStatus.fallback + 1]_vars

C16_MergeIdempotent ==
  [][\A r \in {q \in 1..Len(runs) : runs[q].pc = "search" /\ runs'[q].pc = "done"} :
     \A s \in ManualSearchSettled : \A response \in SearchResponses :
       (/\ manualSettled(r, s, response)
        /\ s.res.status = "returned"
        /\ response # <<>>
        /\ Urls(results) = {response[i].url : i \in 1..Len(response)})
       => /\ Urls(results') = Urls(results)
          /\ \A i, j \in 1..Len(results') :
               i # j => results'[i].url # results'[j].url]_vars

C18_SingleAgentRun ==
  /\ [](Cardinality({r \in 1..Len(runs) : runs[r].kind = "agent" /\ Active(r)}) <= 1)
  /\ [][(agentStep # "idle" /\ Len(runs') > Len(runs))
          => runs'[Len(runs')].kind # "agent"]_vars

\* C19: a stage completion of an agent run that arrives when a newer agent run has
\* been started changes neither the candidates nor the selection, the report, the
\* stage, the insight log or the fetch status.
C19_StaleRunDiscarded ==
  [][\A r \in 1..Len(runs) :
       (/\ runs[r].kind = "agent"
        /\ runs'[r] # runs[r]
        /\ \E q \in (r + 1)..Len(runs) : runs[q].kind = "agent")
       => UNCHANGED <<results, selectedResults, report, agentStep, agentInsights,
                      fetchStatus>>]_vars

\* C20: in the step in which the report call of an agent run settles, the run stores
\* the report, records the success insight and goes to idle when the synthesis
\* succeeded (the endpoint answered 200), and only then; when it failed, a
\* non-success answer of the endpoint included, the stage becomes error, the failure
\* is surfaced, and neither a report nor the success insight is stored.
C20_IdleOnlyOnSynthesis ==
  [][\A r \in {q \in 1..Len(runs) :
                 runs[q].kind = "agent" /\ runs[q].pc = "synth" /\ runs'[q].pc = "done"} :
     \A s \in AgentReportSettled :
       agentReportSettled(r, s) =>
         IF s.last = "200"
         THEN /\ report' = [run |-> r, body |-> "report"]
              /\ agentInsights' = Append(agentInsights, "Report generated successfully")
              /\ agentStep' = "idle"
         ELSE /\ agentStep' = "error"
              /\ error' # "null"
              /\ report' = report
              /\ agentInsights' = agentInsights]_vars

\* C21: a submission of the agent form with an empty or blank research prompt, a
\* submission of the manual form with an empty or blank query, and the addition of
\* a custom URL that is empty, blank or not a URL start no run (no collaborator is
\* called) and leave the candidates, the selection, the report and the status as
\* they were.
C21_MalformedInputRejected ==
  [][/\ (reportPrompt.kind \in {"empty", "blank"} /\ handleAgentSearch)
          => UNCHANGED <<runs, results, selectedResults, report, statusVars>>
     /\ (query.kind \in {"empty", "blank"} /\ handleSearch)
          => UNCHANGED <<runs, results, selectedResults, report, statusVars>>
     /\ \A u \in {n \in NewUrlInputs : n.kind \in {"empty", "blank", "invalid"}} :
          handleAddCustomUrl(u)
            => UNCHANGED <<runs, results, selectedResults, report, statusVars>>]_vars

\* In agent mode with a blank research prompt: the addition of an invalid custom URL
\* was refused with its message, and no run was started.
C21_Witness ==
  /\ isAgentMode
  /\ reportPrompt = BlankText
  /\ error = "Please enter a valid URL"
  /\ runs = <<>>

\* C22: in every reachable state and for every listed candidate id, the selection
\* after two successive handleResultSelect(id) is the selection after one.
C22_ToggleIdempotent ==
  \A id \in Ids(results) :
    toggleSelection(toggleSelection(selectedResults, id), id)
      = toggleSelection(selectedResults, id)

\* C23: a handleResultSelect that selects a single candidate while the report prompt
\* is empty and agent mode is off sets the report prompt to the default naming
\* that candidate, and no handleResultSelect, selecting or deselecting, changes a
\* report prompt that is not empty.
C23_PromptDefaultOnlyIfEmpty ==
  [][\A id \in Ids(results) :
       handleResultSelect(id) =>
         /\ (~isAgentMode /\ selectedResults = <<>> /\ reportPrompt = EmptyText)
              => \E c \in Range(results) :
                   c.id = id /\ reportPrompt' = DefaultPrompt(c.name)
         /\ reportPrompt # EmptyText => reportPrompt' = reportPrompt]_vars

\* C24: a submission of the manual form with a selection and agent mode off starts a
\* run that resolves exactly the selected candidates: its sources are the selected
\* candidates, one fetch is issued for each source without content, and no
\* optimizer, search or analyzer call is made by it, then or later; its synthesizer
\* call is issued only once every source has settled, and is issued in the step in
\* which the last source settles without a rate-limit abort; and no step of such a
\* run changes the candidates or the selection.
C24_ManualReportFlow ==
  /\ [][(handleSearch /\ Trim(query) # EmptyText /\ Len(selectedResults) > 0 /\ ~isAgentMode)
          => /\ Len(runs') = Len(runs) + 1
             /\ LET run == runs'[Len(runs')] IN
                  /\ run.kind = "report"
                  /\ Len(run.sources) = Len(selectedResults)
                  /\ {run.sources[i].id : i \in 1..Len(run.sources)} = Range(selectedResults)
                  /\ Range(run.sources) \subseteq Range(results)
                  /\ run.calls.fetcher
                       = Cardinality({i \in 1..Len(run.sources) : ~run.sources[i].content})
                  /\ run.calls.optimizer = 0 /\ run.calls.search = 0 /\ run.calls.analyzer = 0
             /\ UNCHANGED <<results, selectedResults>>]_vars
  /\ [](\A r \in 1..Len(runs) :
          runs[r].kind = "report"
          => /\ runs[r].calls.optimizer = 0
             /\ runs[r].calls.search = 0
             /\ runs[r].calls.analyzer = 0
             /\ runs[r].calls.synthesizer = 1
                  => \A i \in 1..Len(runs[r].sources) : runs[r].contents[i] # "none")
  /\ [][\A r \in 1..Len(runs) :
          (runs[r].kind = "report" /\ runs'[r] # runs[r])
          => /\ UNCHANGED <<results, selectedResults>>
             /\ (runs[r].pc = "resolve" /\ runs'[r].pending = {} /\ ~runs'[r].aborted)
                  => runs'[r].calls.synthesizer = 1]_vars

\* A report run over one of several candidates has fetched its source and called the
\* synthesizer.
C24_Witness ==
  \E r \in 1..Len(runs) :
    /\ runs[r].kind = "report"
    /\ runs[r].calls.fetcher = 1
    /\ runs[r].calls.synthesizer = 1
    /\ Len(runs[r].sources) = 1
    /\ Len(results) > 1
    /\ runs[r].outcome = "reported"

\* C25: a run that the rate-limit failure of a content fetch has aborted made the
\* full number of attempts (3) of that fetch before it gave up.
C25_FetchRetriedBeforeAbort ==
  \A r \in 1..Len(runs) :
    (runs[r].aborted /\ runs[r].failure = "429") => runs[r].failedAfter = DefaultMaxRetries

\* C26: an agent run whose search ended with the rate-limit failure of the provider
\* (status 429) made the full number of invocations (3) of the search call before
\* the failure was surfaced.
C26_SearchRateLimitRetried ==
  \A r \in 1..Len(runs) :
    (runs[r].kind = "agent" /\ runs[r].failure = "Rate limit exceeded")
    => runs[r].failedAfter = DefaultMaxRetries

\* C27: in the step in which the search of an agent run fails with the quota failure
\* of the provider (status 403) the search call was invoked exactly once, the
\* failure is surfaced and the run ends without an analyzer call; such a run makes
\* no further call afterwards.
C27_SearchQuotaNotRetried ==
  /\ [][\A r \in 1..Len(runs) :
          (runs[r].kind = "agent" /\ runs[r].pc = "search"
             /\ runs'[r].failure = "Search quota exceeded")
          => /\ runs'[r].failedAfter = 1
             /\ error' = "Search quota exceeded"
             /\ runs'[r].pc = "done"
             /\ runs'[r].outcome = "failed"]_vars
  /\ [](\A r \in 1..Len(runs) :
          runs[r].failure = "Search quota exceeded"
          => /\ runs[r].failedAfter = 1
             /\ runs[r].pc = "done"
             /\ runs[r].calls.search = 1
             /\ runs[r].calls.analyzer = 0
             /\ runs[r].calls.fetcher = 0
             /\ runs[r].calls.synthesizer = 0)

\* The search of an agent run has failed with the quota failure.
C27_Witness ==
  \E r \in 1..Len(runs) :
    /\ runs[r].kind = "agent"
    /\ runs[r].failure = "Search quota exceeded"
    /\ runs[r].calls.optimizer = 1
    /\ error = "Search quota exceeded"

\* C28: an agent run calls the optimizer, the search, the analyzer, the fetcher and
\* the synthesizer in that order, one stage after the other: while it awaits one
\* stage the later stages have not been called, and a stage is called in the very
\* step in which the call of the stage before it completes. The fetches of all the
\* sources without content are issued in one step, none later, and the synthesizer
\* is called only when no fetch of the run is in flight and every source is
\* resolved.
C28_StagesInOrder ==
  /\ [](\A r \in 1..Len(runs) :
          LET c == runs[r].calls
              pc == runs[r].pc IN
          runs[r].kind = "agent" =>
            /\ c.optimizer = 1
            /\ pc = "optimize" => c.search = 0
            /\ pc = "search" => c.search = 1 /\ c.analyzer = 0
            /\ pc = "analyze" => c.analyzer = 1 /\ c.fetcher = 0 /\ c.synthesizer = 0
            /\ pc = "resolve" => c.fetcher > 0 /\ c.synthesizer = 0 /\ runs[r].pending # {}
            /\ pc = "synth" => c.synthesizer = 1
            /\ c.analyzer <= c.search /\ c.search <= c.optimizer
            /\ c.fetcher > 0 => c.analyzer = 1
            /\ c.synthesizer = 1
                 => /\ c.analyzer = 1
                    /\ runs[r].pending = {}
                    /\ \A i \in 1..Len(runs[r].sources) : runs[r].contents[i] # "none")
  /\ [][\A r \in 1..Len(runs) :
          runs[r].kind = "agent" =>
            /\ runs'[r].calls.search # runs[r].calls.search
                 => runs[r].pc = "optimize" /\ runs'[r].pc = "search"
            /\ runs'[r].calls.analyzer # runs[r].calls.analyzer
                 => runs[r].pc = "search" /\ runs'[r].pc = "analyze"
            /\ runs'[r].calls.fetcher # runs[r].calls.fetcher
                 => /\ runs[r].pc = "analyze"
                    /\ runs'[r].pending
                         = {i \in 1..Len(runs'[r].sources) : ~runs'[r].sources[i].content}
                    /\ runs'[r].calls.fetcher = Cardinality(runs'[r].pending)
            /\ runs'[r].calls.synthesizer # runs[r].calls.synthesizer
                 => /\ runs[r].pc \in {"analyze", "resolve"}
                    /\ runs'[r].pc = "synth"
                    /\ runs'[r].pending = {}]_vars

\* An agent run has issued two fetches at once, both have settled, and the
\* synthesizer was called and has answered.
C28_Witness ==
  \E r \in 1..Len(runs) :
    /\ runs[r].kind = "agent"
    /\ runs[r].calls.fetcher = 2
    /\ runs[r].calls.synthesizer = 1
    /\ runs[r].outcome = "reported"

\* C29: every step that is not the start of an agent run leaves the insight log as a
\* prefix of the new log: insights are added at the end, and none is removed,
\* changed or moved between the start of a run and the start of the next.
C29_InsightsAppendOnly ==
  [][(Len(runs') > Len(runs) /\ runs'[Len(runs')].kind = "agent")
     \/ /\ Len(agentInsights) <= Len(agentInsights')
        /\ SubSeq(agentInsights', 1, Len(agentInsights)) = agentInsights]_vars

\* A run has added to a log that already held insights: the log holds the insights of
\* the strategy, of the analysis and of the report, in that order.
C29_Witness ==
  /\ Len(agentInsights) >= 5
  /\ agentInsights[1] = "Research strategy"
  /\ agentInsights[Len(agentInsights)] = "Report generated successfully"
  /\ \E r \in 1..Len(runs) : runs[r].kind = "agent" /\ runs[r].outcome = "reported"

\* C30: every step that moves the stage from processing to searching, from searching
\* to analyzing, from analyzing to generating, from generating to idle, or from any
\* stage to error adds at least one insight at the end of the insight log.
C30_InsightAtEveryTransition ==
  [][(\/ <<agentStep, agentStep'>> \in
           {<<"processing", "searching">>, <<"searching", "analyzing">>,
            <<"analyzing", "generating">>, <<"generating", "idle">>}
      \/ (agentStep # "error" /\ agentStep' = "error"))
     => /\ Len(agentInsights') > Len(agentInsights)
        /\ SubSeq(agentInsights', 1, Len(agentInsights)) = agentInsights]_vars

\* C31: the step that starts an agent run sets the report to null; while an agent
\* run is the latest of the runs that produce a report, the report is null or the
\* document the synthesizer returned to that run; and an agent run that ended in a
\* failure does not own the report.
C31_ReportOwnedByRun ==
  /\ [][(Len(runs') > Len(runs) /\ runs'[Len(runs')].kind = "agent")
          => report' = NoReport]_vars
  /\ [](\A r \in 1..Len(runs) :
          (runs[r].kind = "agent"
             /\ \A q \in (r + 1)..Len(runs) : runs[q].kind = "search")
          => \/ report = NoReport
             \/ report = [run |-> r, body |-> "report"])
  /\ [](\A r \in 1..Len(runs) :
          (runs[r].kind = "agent" /\ runs[r].outcome = "failed") => report.run # r)

\* C32: a manually added candidate leaves the candidate set only through its explicit
\* removal: in every step after which a candidate with isCustomUrl is no longer
\* listed, the step is handleRemoveResult of that candidate; no manual search and
\* no start or completion of an agent run removes it.
C32_CustomCandidatesPersist ==
  [][\A c \in {d \in Range(results) : d.isCustomUrl} :
       c \notin Range(results') => handleRemoveResult(c.id)]_vars

\* C34: with every call of the manual flow settling at last, whenever the loading
\* flag is set it is cleared later, and whenever the generatingReport flag is set
\* it is cleared later, whether the search or the report generation succeeded,
\* failed or was aborted by the rate-limit failure of a fetch.
C34_ManualFlowNotBusyForever ==
  /\ loading ~> ~loading
  /\ generatingReport ~> ~generatingReport

\* A manual search has succeeded and a report generation after it was aborted by the
\* rate-limit failure of a fetch; neither flag is set.
C34_Witness ==
  /\ ~loading /\ ~generatingReport
  /\ \E r \in 1..Len(runs) : runs[r].kind = "search" /\ runs[r].outcome = "searched"
  /\ \E r \in 1..Len(runs) :
       runs[r].kind = "report" /\ runs[r].aborted /\ runs[r].outcome = "failed"
====
